---- MODULE Spec2Model ----
(***************************************************************************)
(* Tic-tac-toe with move history (React).  The repository holds two        *)
(* variants of the same three components (Square, Board, Game):            *)
(*   - src/unnamed/part_000: calculateWinner returns the winning triple,    *)
(*     the status line is derived on every render, the history list shows   *)
(*     the current move as plain text;                                      *)
(*   - src/src/App.js: calculateWinner returns the winning mark, the status *)
(*     line is a useState value written by handClick, every history entry   *)
(*     is a button.                                                         *)
(* Definitions without prefix model part_000, definitions prefixed App_     *)
(* model App.js.  Both variants receive the same UI events.                 *)
(*                                                                          *)
(* JavaScript values: a square is "X", "O" or null (modelled as the string  *)
(* "null", falsy); the null returned by part_000's calculateWinner, whose   *)
(* other results are triples, is the empty tuple NoLine.  A board is a      *)
(* function on 0..8; history is a sequence, so the source's history[k] is   *)
(* history[k + 1] here.                                                     *)
(***************************************************************************)
EXTENDS Naturals, Sequences, FiniteSets, TLC

VARIABLES history, currentMove, discarded,
          App_history, App_currentMove, App_status,
          evalSquares, evalDone, evalWinner, App_evalWinner

\* State of the part_000 Game, with the number of history entries that the
\* latest UI event dropped (the entries that history.slice leaves out in
\* handlePlay; 0 for an event that never reaches handlePlay).
gameVars == <<history, currentMove, discarded>>

\* State of the App.js Game and Board.
App_gameVars == <<App_history, App_currentMove, App_status>>

\* A board handed to calculateWinner on its own, and what it returned.
evalVars == <<evalSquares, evalDone, evalWinner, App_evalWinner>>

vars == <<gameVars, App_gameVars, evalVars>>

\* Accepted plays are explored up to histories of MaxMoves moves.
MaxMoves == 5

\* The squares that get clicked are those of index 0..MaxCell.
MaxCell == 6

\* In games played to the end, the empty square that gets clicked is one of
\* the first MaxChoice empty squares of the board on view.
MaxChoice == 2

null == "null"

NoLine == <<>>

Cells == 0..8

\* Array(9).fill(null)
EmptyBoard == [i \in Cells |-> null]

\* The winning "lines" of the board, in the order of the array literal.
lines ==
    << <<0, 1, 2>>,
       <<3, 4, 5>>,
       <<6, 7, 8>>,
       <<0, 3, 6>>,
       <<1, 4, 7>>,
       <<2, 5, 8>>,
       <<0, 4, 8>>,
       <<2, 4, 6>> >>

\* calculateWinner without the truthiness test squares[a] && ...
LineMatchesNoTruthyTest(squares, line) ==
    /\ squares[line[1]] = squares[line[2]]
    /\ squares[line[1]] = squares[line[3]]

\* The condition of the if inside the loop of calculateWinner:
\* squares[a] && squares[a] === squares[b] && squares[a] === squares[c]
LineMatches(squares, line) ==
    /\ squares[line[1]] # null
    /\ squares[line[1]] = squares[line[2]]
    /\ squares[line[1]] = squares[line[3]]

\* for (const line of lines) from position k on: the first matching line is
\* returned as [a, b, c]; null when the loop ends.
RECURSIVE calculateWinnerFrom(_, _)
calculateWinnerFrom(squares, k) ==
    IF k > Len(lines) THEN NoLine
    ELSE IF LineMatches(squares, lines[k]) THEN lines[k]
    ELSE calculateWinnerFrom(squares, k + 1)

\* calculateWinner keeping the last matching line instead of returning at
\* the first one
RECURSIVE calculateWinnerLastFrom(_, _)
calculateWinnerLastFrom(squares, k) ==
    IF k < 1 THEN NoLine
    ELSE IF LineMatches(squares, lines[k]) THEN lines[k]
    ELSE calculateWinnerLastFrom(squares, k - 1)

calculateWinnerLast(squares) == calculateWinnerLastFrom(squares, Len(lines))

calculateWinner(squares) == calculateWinnerFrom(squares, 1)

\* App.js: the same loop, returning squares[a], or null.
RECURSIVE App_calculateWinnerFrom(_, _)
App_calculateWinnerFrom(squares, k) ==
    IF k > Len(lines) THEN null
    ELSE IF LineMatches(squares, lines[k]) THEN squares[lines[k][1]]
    ELSE App_calculateWinnerFrom(squares, k + 1)

App_calculateWinner(squares) == App_calculateWinnerFrom(squares, 1)

---------------------------------------------------------------------------
(* part_000: Game and Board.  A handler runs to completion on the values   *)
(* of the render it was created in and queues the new values with the      *)
(* useState setters; it is modelled as the record of the values the next   *)
(* render sees.                                                            *)

\* const currentSquares = history[currentMove];
currentSquares == history[currentMove + 1]

\* const xIsNext = currentMove % 2 === 0;
xIsNext == currentMove % 2 = 0

\* The status line naming, on a win, the player whose turn would be next
statusNamesNextPlayer ==
    IF calculateWinner(currentSquares) # NoLine
    THEN "Winner: " \o (IF xIsNext THEN "X" ELSE "O")
    ELSE "Next player: " \o (IF xIsNext THEN "X" ELSE "O")

\* Board: the status line, computed on every render.
status ==
    IF calculateWinner(currentSquares) # NoLine
    THEN "Winner: " \o (IF xIsNext THEN "O" ELSE "X")
    ELSE "Next player: " \o (IF xIsNext THEN "X" ELSE "O")

\* handlePlay appending to the whole history: [...history, nextSquares]
nextHistoryNoSlice(nextSq) == Append(history, nextSq)

\* Game.handlePlay: const nextHistory = [...history.slice(0, currentMove + 1),
\* nextSquares];
nextHistory(nextSq) == Append(SubSeq(history, 1, currentMove + 1), nextSq)

\* handlePlay with setCurrentMove(nextHistory.length)
handlePlayOffByOne(nextSq) ==
    [history |-> nextHistory(nextSq),
     currentMove |-> Len(nextHistory(nextSq)),
     discarded |-> Len(history) - (currentMove + 1)]

\* Game.handlePlay: setHistroy(nextHistory);
\* setCurrentMove(nextHistory.length - 1);
handlePlay(nextSq) ==
    [history |-> nextHistory(nextSq),
     currentMove |-> Len(nextHistory(nextSq)) - 1,
     discarded |-> Len(history) - (currentMove + 1)]

\* handClick without the calculateWinner test of its early return
handClickIgnoresWinner(i) == currentSquares[i] # null

\* handClick without the squares[i] test of its early return
handClickIgnoresOccupied(i) == calculateWinner(currentSquares) # NoLine

\* Board.handClick: if (squares[i] || calculateWinner(squares) != null) return;
handClickReturnsEarly(i) ==
    currentSquares[i] # null \/ calculateWinner(currentSquares) # NoLine

\* handClick placing "X" whoever's turn it is
nextSquaresAlwaysX(i) == [currentSquares EXCEPT ![i] = "X"]

\* Board.handClick: const nextSquares = squares.slice();
\* nextSquares[i] = xIsNext ? "X" : "O";
nextSquares(i) ==
    [currentSquares EXCEPT ![i] = IF xIsNext THEN "X" ELSE "O"]

\* Board.handClick
handClick(i) ==
    IF handClickReturnsEarly(i)
    THEN [history |-> history, currentMove |-> currentMove, discarded |-> 0]
    ELSE handlePlay(nextSquares(i))

\* jumpTo cutting the history at the move jumped to
jumpToTruncating(nextMove) ==
    [history |-> SubSeq(history, 1, nextMove + 1),
     currentMove |-> nextMove,
     discarded |-> 0]

\* Game.jumpTo: setCurrentMove(nextMove);
jumpTo(nextMove) ==
    [history |-> history, currentMove |-> nextMove, discarded |-> 0]

\* Game.moves: the history entries rendered as a button calling jumpTo(move);
\* the entry of the current move is plain text.
moves == {move \in 0..(Len(history) - 1) : move # currentMove}

\* Board's grid: boardRows[row][col] is the index of the Square pushed for
\* column col of the board-row div number row.
boardRows == [row \in 0..2 |-> [col \in 0..2 |-> row + (col * 3)]]

\* The value prop of the Square at (row, col).
squareValue(row, col) == currentSquares[boardRows[row][col]]

\* The onSquareClick prop of the Square at (row, col).
onSquareClick(row, col) == handClick(boardRows[row][col])

\* The next render of Game, with the queued values.
Render(after) ==
    /\ history' = after.history
    /\ currentMove' = after.currentMove
    /\ discarded' = after.discarded

---------------------------------------------------------------------------
(* App.js: Game and Board *)

App_currentSquares == App_history[App_currentMove + 1]

App_xIsNext == App_currentMove % 2 = 0

App_nextHistory(nextSq) ==
    Append(SubSeq(App_history, 1, App_currentMove + 1), nextSq)

\* Game.handlePlay; the status is the Board's, which handlePlay leaves alone.
App_handlePlay(nextSq) ==
    [history |-> App_nextHistory(nextSq),
     currentMove |-> Len(App_nextHistory(nextSq)) - 1,
     status |-> App_status]

\* The early return of App.js without the winner test: if (squares[i]) return;
App_handClickIgnoresWinner(i) == App_currentSquares[i] # null

\* Board.handClick: if (squares[i] || calculateWinner(squares)) return;
App_handClickReturnsEarly(i) ==
    App_currentSquares[i] # null \/ App_calculateWinner(App_currentSquares) # null

App_nextSquares(i) ==
    [App_currentSquares EXCEPT ![i] = IF App_xIsNext THEN "X" ELSE "O"]

\* Board.handClick: the setStatus call after onPlay(nextSquares).
App_nextStatus(i) ==
    IF App_calculateWinner(App_nextSquares(i)) # null
    THEN "Winner: " \o App_calculateWinner(App_nextSquares(i))
    ELSE "Next player: " \o (IF App_xIsNext THEN "O" ELSE "X")

\* Board.handClick
App_handClick(i) ==
    IF App_handClickReturnsEarly(i)
    THEN [history |-> App_history,
          currentMove |-> App_currentMove,
          status |-> App_status]
    ELSE [App_handlePlay(App_nextSquares(i)) EXCEPT !.status = App_nextStatus(i)]

\* Game.jumpTo
App_jumpTo(nextMove) ==
    [history |-> App_history, currentMove |-> nextMove, status |-> App_status]

\* Game.moves: every history entry is a button calling jumpTo(move).
App_moves == 0..(Len(App_history) - 1)

\* Board's grid: the three board-row divs with their three Squares each.
App_boardRows ==
    [row \in 0..2 |-> [col \in 0..2 |->
        << <<0, 1, 2>>, <<3, 4, 5>>, <<6, 7, 8>> >>[row + 1][col + 1]]]

App_squareValue(row, col) == App_currentSquares[App_boardRows[row][col]]

App_onSquareClick(row, col) == App_handClick(App_boardRows[row][col])

App_Render(after) ==
    /\ App_history' = after.history
    /\ App_currentMove' = after.currentMove
    /\ App_status' = after.status

---------------------------------------------------------------------------
(* The UI events *)

\* useState([Array(9).fill(null)]), useState(0), useState("Next player: X")
InitGame ==
    /\ history = <<EmptyBoard>>
    /\ currentMove = 0
    /\ discarded = 0
    /\ App_history = <<EmptyBoard>>
    /\ App_currentMove = 0
    /\ App_status = "Next player: X"

Init ==
    /\ InitGame
    /\ evalSquares = EmptyBoard
    /\ evalDone = FALSE
    /\ evalWinner = NoLine
    /\ App_evalWinner = null

\* A click on the square of index i: onSquareClick={() => handClick(i)}.
SquareClick(i) ==
    /\ \E after \in {handClick(i)} :
          /\ Len(after.history) <= MaxMoves + 1
          /\ Render(after)
    /\ \E after \in {App_handClick(i)} :
          /\ Len(after.history) <= MaxMoves + 1
          /\ App_Render(after)
    /\ UNCHANGED evalVars

\* A click on entry move of the history list: onClick={() => jumpTo(move)}
\* where the entry is a button.
MoveClick(move) ==
    /\ move \in moves \cup App_moves
    /\ IF move \in moves THEN Render(jumpTo(move)) ELSE UNCHANGED gameVars
    /\ IF move \in App_moves
       THEN App_Render(App_jumpTo(move))
       ELSE UNCHANGED App_gameVars
    /\ UNCHANGED evalVars

Next ==
    \/ \E i \in 0..MaxCell : SquareClick(i)
    \/ \E move \in 0..MaxMoves : MoveClick(move)

Spec == Init /\ [][Next]_vars

---------------------------------------------------------------------------
(* calculateWinner on every board of 9 squares *)

Boards == [Cells -> {null, "X", "O"}]

InitEval ==
    /\ InitGame
    /\ evalSquares \in Boards
    /\ evalDone = FALSE
    /\ evalWinner = NoLine
    /\ App_evalWinner = null

Evaluate ==
    /\ ~evalDone
    /\ evalDone' = TRUE
    /\ evalWinner' = calculateWinner(evalSquares)
    /\ App_evalWinner' = App_calculateWinner(evalSquares)
    /\ UNCHANGED <<evalSquares, gameVars, App_gameVars>>

NextEval == Evaluate

SpecEval == InitEval /\ [][NextEval]_vars

---------------------------------------------------------------------------
(* Games played to the end, with jumps *)

\* The number of empty squares of the board on view before square i.
EmptyBefore(i) == Cardinality({j \in Cells : j < i /\ currentSquares[j] = null})

\* A click on square i, with no cap on the length of the history.
DeepClick(i) ==
    /\ currentSquares[i] # null \/ EmptyBefore(i) < MaxChoice
    /\ \E after \in {handClick(i)} : Render(after)
    /\ \E after \in {App_handClick(i)} : App_Render(after)
    /\ UNCHANGED evalVars

NextDeep ==
    \/ \E i \in Cells : DeepClick(i)
    \/ \E move \in moves \cup App_moves : MoveClick(move)

SpecDeep == Init /\ [][NextDeep]_vars

---------------------------------------------------------------------------
(* The vocabulary of the specification *)

Marks == {"X", "O"}

\* The mark whose turn it is at move m: MarkA ("X") on even m, MarkB ("O") on odd.
TurnMark(m) == IF m % 2 = 0 THEN "X" ELSE "O"

\* The 8 triples: 3 rows, 3 columns, 2 diagonals.
Triples ==
    {{3 * r, 3 * r + 1, 3 * r + 2} : r \in 0..2}
        \cup {{c, c + 3, c + 6} : c \in 0..2}
        \cup {{0, 4, 8}, {2, 4, 6}}

\* The three cells of triple t are non-Empty and equal.
UniformTriple(board, t) == \E mk \in Marks : \A c \in t : board[c] = mk

HasWinningLine(board) == \E t \in Triples : UniformTriple(board, t)

\* The triples of the board that are non-Empty and uniform.
UniformTriples(board) == {t \in Triples : UniformTriple(board, t)}

\* The cells of a line returned by evaluate.
LineCells(line) == {line[k] : k \in 1..Len(line)}

NonEmptyCells(board) == {c \in Cells : board[c] # null}

CellsOf(board, mk) == {c \in Cells : board[c] = mk}

\* A board on which the game is over: decided or full.
GameOver(board) == HasWinningLine(board) \/ NonEmptyCells(board) = Cells

\* The priority order of evaluate: rows top to bottom, columns left to right,
\* then the two diagonals.
TripleOrder ==
    << <<0, 1, 2>>, <<3, 4, 5>>, <<6, 7, 8>>,
       <<0, 3, 6>>, <<1, 4, 7>>, <<2, 5, 8>>,
       <<0, 4, 8>>, <<2, 4, 6>> >>

\* The positions in TripleOrder of the uniform triples of the board.
UniformPositions(board) ==
    {k \in 1..Len(TripleOrder) : UniformTriple(board, LineCells(TripleOrder[k]))}

FirstPosition(positions) == CHOOSE k \in positions : \A j \in positions : k <= j

\* play(i) on the viewed board is rejected when cell i is non-Empty or the
\* board already holds a winning line, and accepted otherwise.

OtherMark(mk) == IF mk = "X" THEN "O" ELSE "X"

\* The status as a function of the viewed board and the turn parity.
DerivedStatus(board, m) ==
    IF HasWinningLine(board)
    THEN "Winner: " \o OtherMark(TurnMark(m))
    ELSE "Next player: " \o TurnMark(m)

\* The board after the first k plays of the cells in order, X moving first.
ScenarioBoard(cells, k) ==
    [c \in Cells |->
        IF \E j \in 1..k : cells[j] = c
        THEN TurnMark((CHOOSE j \in 1..k : cells[j] = c) - 1)
        ELSE null]

\* The history after the first k plays of the cells, made from the start.
ScenarioHistory(cells, k) == [j \in 1..(k + 1) |-> ScenarioBoard(cells, j - 1)]

TopRowPlays == <<0, 4, 1, 5, 2>>

LeftColumnPlays == <<0, 1, 3, 4, 6>>

---------------------------------------------------------------------------
(* Claims *)

\* C1: play(cellIndex) on a viewed board whose cell cellIndex is non-Empty,
\* or which already holds a winning line, changes neither History nor
\* CurrentMove, for every cellIndex in 0..8 and whichever snapshot is viewed.
C1_RejectedPlayIsNoOp ==
    LET won == HasWinningLine(currentSquares)
        App_won == HasWinningLine(App_currentSquares)
    IN  \A i \in Cells :
            /\ (currentSquares[i] # null \/ won) =>
                  \A after \in {handClick(i)} :
                      /\ after.history = history
                      /\ after.currentMove = currentMove
            /\ (App_currentSquares[i] # null \/ App_won) =>
                  \A after \in {App_handClick(i)} :
                      /\ after.history = App_history
                      /\ after.currentMove = App_currentMove

\* A decided board with empty cells left is on view.
C1_Witness ==
    /\ HasWinningLine(currentSquares)
    /\ \E i \in Cells : currentSquares[i] = null
    /\ HasWinningLine(App_currentSquares)

\* C2: an accepted play(cellIndex) at History = H, CurrentMove = m leaves
\* History = H[0..m] followed by one new board (length m + 2, whatever H held
\* beyond m) and CurrentMove = m + 1, the new last index.
C2_PlayTruncatesAndAppends ==
    LET won == HasWinningLine(currentSquares)
        App_won == HasWinningLine(App_currentSquares)
    IN  \A i \in Cells :
            /\ ~(currentSquares[i] # null \/ won) =>
                  \A after \in {handClick(i)} :
                      /\ Len(after.history) = currentMove + 2
                      /\ \A k \in 1..(currentMove + 1) :
                            after.history[k] = history[k]
                      /\ after.currentMove = currentMove + 1
                      /\ after.currentMove = Len(after.history) - 1
            /\ ~(App_currentSquares[i] # null \/ App_won) =>
                  \A after \in {App_handClick(i)} :
                      /\ Len(after.history) = App_currentMove + 2
                      /\ \A k \in 1..(App_currentMove + 1) :
                            after.history[k] = App_history[k]
                      /\ after.currentMove = App_currentMove + 1
                      /\ after.currentMove = Len(after.history) - 1

\* A play accepted at move 0 of a longer history has just left History.length = 2.
C2_Witness ==
    /\ discarded >= 2
    /\ Len(history) = 2
    /\ currentMove = 1
    /\ Len(App_history) = 2

\* C3: an accepted play(i) at CurrentMove = m appends the viewed board with
\* cell i alone changed, to X for even m and O for odd m, and the turn
\* derived from the new CurrentMove is the other mark.
C3_PlayPlacesTurnMark ==
    LET won == HasWinningLine(currentSquares)
    IN  \A i \in Cells :
            ~(currentSquares[i] # null \/ won) =>
                \A after \in {handClick(i)} :
                    \A appended \in {after.history[Len(after.history)]} :
                        /\ appended[i] = TurnMark(currentMove)
                        /\ \A j \in Cells \ {i} : appended[j] = currentSquares[j]
                        /\ TurnMark(after.currentMove) \in Marks \ {appended[i]}

\* An O has just been placed by a play made from a past move.
C3_Witness ==
    /\ discarded >= 1
    /\ currentMove = Len(history) - 1
    /\ currentMove % 2 = 0
    /\ \E i \in Cells :
          /\ currentSquares[i] = "O"
          /\ history[currentMove][i] = null

\* C4: jumpTo(moveIndex) sets CurrentMove to moveIndex and leaves History as
\* it is (same length, same boards), so that in every state reached by plays
\* and jumps the board on view after jumpTo(m) is H[m].
C4_JumpKeepsHistory ==
    /\ \A move \in 0..(Len(history) - 1) :
          \A after \in {jumpTo(move)} :
              /\ after.history = history
              /\ after.currentMove = move
              /\ after.history[after.currentMove + 1] = history[move + 1]
    /\ \A move \in 0..(Len(App_history) - 1) :
          \A after \in {App_jumpTo(move)} :
              /\ after.history = App_history
              /\ after.currentMove = move
              /\ after.history[after.currentMove + 1] = App_history[move + 1]

\* A past move is on view with at least two later boards still recorded.
C4_Witness ==
    /\ currentMove + 2 < Len(history)
    /\ App_currentMove + 2 < Len(App_history)
    /\ discarded = 0

\* C5: on every board of 9 cells calculateWinner returns a non-null result
\* exactly when one of the 8 triples holds three equal non-Empty cells.
C5_WinnerIffUniformTriple ==
    evalDone =>
        /\ (evalWinner # NoLine) <=> HasWinningLine(evalSquares)
        /\ (App_evalWinner # null) <=> HasWinningLine(evalSquares)

\* calculateWinner has found the anti-diagonal, the last line it tries.
C5_Witness ==
    /\ evalDone
    /\ evalWinner = <<2, 4, 6>>
    /\ App_evalWinner = "O"

\* C6: in every reachable state the status shown is the function of the
\* viewed board and the turn parity, "Winner: <mark that just moved>" on a
\* winning line and "Next player: <mark to move>" otherwise; it is never a
\* stored value that differs from it.
C6_StatusIsDerived ==
    /\ status = DerivedStatus(currentSquares, currentMove)
    /\ App_status = DerivedStatus(App_currentSquares, App_currentMove)

\* C7: 0 <= CurrentMove <= History.length - 1 in every reachable state, and
\* in the state inside handlePlay where History is already the new one and
\* CurrentMove still the old one.
C7_CurrentMoveInRange ==
    [](/\ 0 <= currentMove
       /\ currentMove <= Len(history) - 1
       /\ \A i \in Cells :
             \A after \in {handClick(i)} :
                 /\ currentMove <= Len(after.history) - 1
                 /\ 0 <= after.currentMove
                 /\ after.currentMove <= Len(after.history) - 1
       /\ \A move \in moves :
             \A after \in {jumpTo(move)} :
                 /\ 0 <= after.currentMove
                 /\ after.currentMove <= Len(after.history) - 1)

\* A play from a past move has just made CurrentMove the last index again.
C7_Witness ==
    /\ discarded >= 1
    /\ currentMove = Len(history) - 1
    /\ currentMove >= 2

\* C8: History[0] is the all-Empty board and each History[i+1] differs from
\* History[i] in exactly one cell, Empty before and X (i even) or O (i odd)
\* after, also once a play from a past move has cut and re-extended History.
C8_HistoryAlternates ==
    [](/\ history[1] = EmptyBoard
       /\ \A k \in 1..(Len(history) - 1) :
             \E c \in Cells :
                 /\ history[k][c] = null
                 /\ history[k + 1][c] = TurnMark(k - 1)
                 /\ \A j \in Cells \ {c} : history[k + 1][j] = history[k][j])

\* History has been cut by a play from a past move and extended again.
C8_Witness ==
    /\ discarded >= 1
    /\ Len(history) >= 4
    /\ currentMove = Len(history) - 1

\* C9: from the start play(0), play(4), play(1), play(5), play(2) are each
\* accepted with marks X, O, X, O, X; then cells 0, 1, 2 hold X,
\* calculateWinner returns [0, 1, 2], the status is "Winner: X", and play(3)
\* leaves History (length 6) and CurrentMove (5) as they are.
C9_TopRowScenario ==
    /\ \A k \in 0..4 :
          (history = ScenarioHistory(TopRowPlays, k) /\ currentMove = k) =>
              \A after \in {handClick(TopRowPlays[k + 1])} :
                  /\ after.history = ScenarioHistory(TopRowPlays, k + 1)
                  /\ after.currentMove = k + 1
    /\ (history = ScenarioHistory(TopRowPlays, 5) /\ currentMove = 5) =>
          /\ \A c \in {0, 1, 2} : currentSquares[c] = "X"
          /\ calculateWinner(currentSquares) = <<0, 1, 2>>
          /\ status = "Winner: X"
          /\ \A after \in {handClick(3)} :
                /\ after.history = history
                /\ Len(after.history) = 6
                /\ after.currentMove = 5

\* The five plays have been made and the top row is X's.
C9_Witness ==
    /\ history = ScenarioHistory(TopRowPlays, 5)
    /\ currentMove = 5
    /\ currentSquares = (0 :> "X" @@ 1 :> "X" @@ 2 :> "X" @@ 3 :> null @@ 4 :> "O"
                         @@ 5 :> "O" @@ 6 :> null @@ 7 :> null @@ 8 :> null)

\* C10: from the start play(0), play(1), play(3), play(4), play(6) are all
\* accepted; then the left column (0, 3, 6) is held by the mark that moved
\* first, calculateWinner finds a line and the status names that mark as the
\* winner.
C10_LeftColumnScenario ==
    /\ \A k \in 0..4 :
          (history = ScenarioHistory(LeftColumnPlays, k) /\ currentMove = k) =>
              \A after \in {handClick(LeftColumnPlays[k + 1])} :
                  /\ after.history = ScenarioHistory(LeftColumnPlays, k + 1)
                  /\ after.currentMove = k + 1
    /\ (history = ScenarioHistory(LeftColumnPlays, 5) /\ currentMove = 5) =>
          /\ \A c \in {0, 3, 6} : currentSquares[c] = history[2][0]
          /\ history[2][0] \in Marks
          /\ calculateWinner(currentSquares) # NoLine
          /\ status = "Winner: " \o history[2][0]

\* The five plays have been made and the left column is the first mover's.
C10_Witness ==
    /\ history = ScenarioHistory(LeftColumnPlays, 5)
    /\ currentMove = 5
    /\ \A c \in {0, 3, 6} : currentSquares[c] = "X"
    /\ \A c \in {1, 4} : currentSquares[c] = "O"

\* C11, as stated: on every board reachable through legal play at most one of
\* the 8 triples is non-Empty and uniform.
C11_AtMostOneUniformTriple ==
    \A k \in 1..Len(history) : Cardinality(UniformTriples(history[k])) <= 1

\* C11, amended: on every board reachable through legal play at most two
\* triples are uniform; two only on the full board of move 9, both X's and
\* sharing one cell; the line evaluate returns is one of them, hence the only
\* winning line whenever there is just one.
C11_AtMostTwoUniformTriples ==
    [](\A k \in 1..Len(history) :
          \A won \in {UniformTriples(history[k])} :
              /\ Cardinality(won) <= 2
              /\ won # {} => LineCells(calculateWinner(history[k])) \in won
              /\ won = {} => calculateWinner(history[k]) = NoLine
              /\ Cardinality(won) = 2 =>
                    /\ k = 10
                    /\ NonEmptyCells(history[k]) = Cells
                    /\ \A t \in won : \A c \in t : history[k][c] = "X"
                    /\ \A t \in won : \A u \in won \ {t} :
                          Cardinality(t \cap u) = 1)

\* The ninth move has completed two lines at once.
C11_Witness ==
    /\ currentMove = 9
    /\ Cardinality(UniformTriples(currentSquares)) = 2

\* C12: evaluate tries the triples in the order [0,1,2], [3,4,5], [6,7,8],
\* [0,3,6], [1,4,7], [2,5,8], [0,4,8], [2,4,6] and, on every board with uniform
\* non-Empty triples, returns the first of them in that order, as the ordered
\* triple of its indices.
C12_FirstTripleInOrder ==
    evalDone =>
        \A positions \in {UniformPositions(evalSquares)} :
            positions # {} =>
                evalWinner = TripleOrder[FirstPosition(positions)]

\* calculateWinner has returned the first of several uniform triples, held
\* by different marks.
C12_Witness ==
    /\ evalDone
    /\ Cardinality(UniformPositions(evalSquares)) >= 2
    /\ evalWinner = <<3, 4, 5>>
    /\ evalSquares[3] = "O"
    /\ evalSquares[6] = "X"
    /\ UniformTriple(evalSquares, {6, 7, 8})

\* C13: the cell rendered at grid row r, column c displays the value of, and
\* dispatches play for, linear index r*3 + c, in both variants; the triples
\* called rows are rendered as grid rows and those called columns as grid
\* columns.
C13_RowMajorLayout ==
    /\ \A row \in 0..2 : \A col \in 0..2 :
          /\ squareValue(row, col) = currentSquares[row * 3 + col]
          /\ onSquareClick(row, col) = handClick(row * 3 + col)
          /\ App_squareValue(row, col) = App_currentSquares[row * 3 + col]
          /\ App_onSquareClick(row, col) = App_handClick(row * 3 + col)
    /\ \A k \in 0..2 :
          /\ {boardRows[k][col] : col \in 0..2} = LineCells(TripleOrder[k + 1])
          /\ {boardRows[row][k] : row \in 0..2} = LineCells(TripleOrder[k + 4])
          /\ {App_boardRows[k][col] : col \in 0..2} = LineCells(TripleOrder[k + 1])
          /\ {App_boardRows[row][k] : row \in 0..2} = LineCells(TripleOrder[k + 4])

\* C14: in every reachable state the history list offers a jumpTo control for
\* every History index except CurrentMove, in both variants, so no control
\* issues jumpTo(CurrentMove).
C14_NoControlForCurrentMove ==
    /\ moves = (0..(Len(history) - 1)) \ {currentMove}
    /\ App_moves = (0..(Len(App_history) - 1)) \ {App_currentMove}

\* C15: in every reachable state, a winning line of History[i] is held by X
\* when i is odd and by O when i is even, and on a viewed board with a winning
\* line the status "Winner: ..." names the mark on the line calculateWinner
\* returns, also after jumps and truncation.
C15_WinnerIsLastMover ==
    [](/\ \A k \in 1..Len(history) :
             \A t \in UniformTriples(history[k]) :
                 \A c \in t :
                     history[k][c] = (IF (k - 1) % 2 = 1 THEN "X" ELSE "O")
       /\ \A line \in {calculateWinner(currentSquares)} :
             line # NoLine =>
                 /\ \A c \in LineCells(line) : currentSquares[c] = currentSquares[line[1]]
                 /\ status = "Winner: " \o currentSquares[line[1]])

\* A play made from an earlier move has dropped later boards and completed a
\* line of O, and the status names O.
C15_Witness ==
    /\ discarded > 0
    /\ currentMove = 6
    /\ calculateWinner(currentSquares) # NoLine
    /\ currentSquares[calculateWinner(currentSquares)[1]] = "O"
    /\ status = "Winner: O"

\* C16: in every reachable state only the last board of History can hold a
\* winning line: calculateWinner returns none for History[i] with
\* i < History.length - 1, so a jump back from a decided game lands on an
\* undecided board.
C16_OnlyLastBoardDecided ==
    [](\A k \in 1..(Len(history) - 1) :
          /\ calculateWinner(history[k]) = NoLine
          /\ ~HasWinningLine(history[k]))

\* The game is decided on its last board and an earlier board is viewed.
C16_Witness ==
    /\ calculateWinner(history[Len(history)]) # NoLine
    /\ currentMove < Len(history) - 1
    /\ currentMove > 0
    /\ calculateWinner(currentSquares) = NoLine

\* C17: in every reachable state History[i] has exactly i non-Empty cells,
\* ceil(i/2) of them X and floor(i/2) of them O; hence History has at most 10
\* boards and CurrentMove is at most 9.
C17_BoardCounts ==
    [](/\ \A k \in 1..Len(history) :
             /\ Cardinality(NonEmptyCells(history[k])) = k - 1
             /\ Cardinality(CellsOf(history[k], "X")) = k \div 2
             /\ Cardinality(CellsOf(history[k], "O")) = (k - 1) \div 2
       /\ Len(history) <= 10
       /\ currentMove <= 9)

\* A drawn game: ten boards, the last one full with five X and four O.
C17_Witness ==
    /\ Len(history) = 10
    /\ currentMove = 9
    /\ Cardinality(CellsOf(currentSquares, "X")) = 5
    /\ Cardinality(CellsOf(currentSquares, "O")) = 4
    /\ ~HasWinningLine(currentSquares)

\* C18: play alone terminates.  CurrentMove starts at 0, never exceeds 9, and
\* an accepted play raises it by exactly one while a rejected play changes
\* nothing, so a run without jumps accepts at most 9 plays.  On a viewed
\* board that is decided or full every play on every cell is rejected and the
\* state stays as it is; on an undecided board with an Empty cell some play
\* is accepted.  From a viewed board where the game is over every jump leads
\* to an earlier board of the unchanged History, so play is enabled again
\* only by a jump to an earlier, undecided and non-full board.
C18_PlayTerminates ==
    [](/\ currentMove <= 9
       /\ \A i \in Cells :
             \A after \in {handClick(i)} :
                 \/ /\ after.history = history
                    /\ after.currentMove = currentMove
                 \/ /\ ~GameOver(currentSquares)
                    /\ after.currentMove = currentMove + 1
                    /\ Len(after.history) = currentMove + 2
       /\ GameOver(currentSquares) =>
             /\ \A i \in Cells :
                   App_handClick(i) = [history |-> App_history,
                                       currentMove |-> App_currentMove,
                                       status |-> App_status]
             /\ \A move \in moves :
                   \A after \in {jumpTo(move)} :
                       /\ after.history = history
                       /\ after.currentMove < currentMove
       /\ ~GameOver(currentSquares) =>
             \E i \in Cells : handClick(i).currentMove = currentMove + 1)

\* The game was won before the board was full; every play is rejected and
\* the entry of an earlier undecided board is offered.
C18_Witness ==
    /\ currentMove = Len(history) - 1
    /\ currentMove < 9
    /\ HasWinningLine(currentSquares)
    /\ \E c \in Cells : currentSquares[c] = null
    /\ \A i \in Cells : handClick(i).history = history
    /\ \E move \in moves : ~GameOver(history[move + 1])

\* C19: the two variants are equivalent on controller state.  Driven by the
\* same events they hold the same History and CurrentMove in every reachable
\* state; for every cell index both handClick accept or both reject and yield
\* the same History and CurrentMove; for every History index both jumpTo yield
\* the same History and CurrentMove.
C19_VariantsEquivalent ==
    [](/\ history = App_history
       /\ currentMove = App_currentMove
       /\ \A i \in Cells :
             \A after \in {handClick(i)} : \A App_after \in {App_handClick(i)} :
                 /\ handClickReturnsEarly(i) <=> App_handClickReturnsEarly(i)
                 /\ after.history = App_after.history
                 /\ after.currentMove = App_after.currentMove
       /\ \A move \in 0..(Len(history) - 1) :
             /\ jumpTo(move).history = App_jumpTo(move).history
             /\ jumpTo(move).currentMove = App_jumpTo(move).currentMove)

\* Both variants have dropped later boards with a play that won the game for
\* O: one finds the triple, the other the mark, and both reject further play.
C19_Witness ==
    /\ discarded > 0
    /\ history = App_history
    /\ currentMove = App_currentMove
    /\ calculateWinner(currentSquares) # NoLine
    /\ App_calculateWinner(App_currentSquares) = "O"
    /\ \A i \in Cells : handClickReturnsEarly(i) /\ App_handClickReturnsEarly(i)

====
